---- MODULE Spec2Model ----
(***************************************************************************)
(* Model of the playlist engine of reproductor_musica_python:              *)
(* models/node.py (NodoCancion) and models/playlist.py (ListaReproduccion),*)
(* a circular doubly-linked list of songs with a cursor (actual) and an    *)
(* insertion anchor (primero).                                             *)
(*                                                                         *)
(* Object identity: a NodoCancion object is the index of its record in     *)
(* heap, so the k-th node ever created has identity k.  None is 0.         *)
(***************************************************************************)
EXTENDS Integers, Sequences, FiniteSets, TLC

\* ------------------------------------------------------------------ bounds
\* Number of NodoCancion objects created in one behaviour.
MaxNodos == 4

\* Python's None, as a node reference that is no node.
None == 0

\* (titulo, artista, duracion, ruta) tuples handed to agregar_cancion: a
\* tagged track and the fallback tuple of a file whose metadata could not be
\* read (artist "Desconocido", duration 0).  The same tuple may be added twice.
Entradas ==
    { [titulo |-> "A", artista |-> "X", duracion |-> 125, ruta |-> "/m/A.mp3"],
      [titulo |-> "B", artista |-> "Desconocido", duracion |-> 0, ruta |-> "/m/B.wav"] }

VARIABLES
    heap,       \* the NodoCancion objects created so far, by identity
    actual,     \* ListaReproduccion.actual
    primero,    \* ListaReproduccion.primero
    tamanio,    \* ListaReproduccion.tamanio
    op,         \* observer: the method that ran last
    ret,        \* observer: what that method returned
    presentes,  \* observer: nodes returned by agregar_cancion and not yet
                \*           returned by eliminar_cancion_actual
    ui,         \* PlaylistWidget: its PlaylistModel, the handler that is
                \*           running, its position and its locals
    hilos,      \* thread -> the line of the playlist method it is about to
                \*           run ("fuera" between calls) and the method's locals
    solapado    \* observer: some call started while another was running

vars == <<heap, actual, primero, tamanio, op, ret, presentes, ui, hilos,
          solapado>>
lista == <<heap, actual, primero, tamanio>>

Nodos == DOMAIN heap

\* The value a method returns, tagged with its Python type.
Ret(tipo, val) == [tipo |-> tipo, val |-> val]

\* ------------------------------------------------------------- node.py
\* NodoCancion.__init__: the four song fields as given, both links on self.
NodoCancion_sin_enlaces(self, titulo, artista, duracion, ruta) ==
    [titulo |-> titulo, artista |-> artista, duracion |-> duracion, ruta |-> ruta,
     anterior |-> None, siguiente |-> None]

NodoCancion_campos_cruzados(self, titulo, artista, duracion, ruta) ==
    [titulo |-> artista, artista |-> titulo, duracion |-> duracion, ruta |-> ruta,
     anterior |-> self, siguiente |-> self]

NodoCancion(self, titulo, artista, duracion, ruta) ==
    [titulo |-> titulo, artista |-> artista, duracion |-> duracion, ruta |-> ruta,
     anterior |-> self, siguiente |-> self]

\* ---------------------------------------------------------- playlist.py
esta_vacia == tamanio = 0

\* agregar_cancion, line 70: the last node is the one before primero.
ultimo_nodo_desde_actual(h) == h[actual].anterior

ultimo_nodo_hacia_adelante(h) == h[primero].siguiente

ultimo_nodo(h) == h[primero].anterior

\* agregar_cancion, lines 74-78: the four link assignments, in order.
enlazar_sin_cerrar(h, nuevo_nodo) ==
    LET ultimo == ultimo_nodo(h)
        h1 == [h  EXCEPT ![nuevo_nodo].siguiente = primero]
        h2 == [h1 EXCEPT ![nuevo_nodo].anterior = ultimo]
        h3 == [h2 EXCEPT ![ultimo].siguiente = nuevo_nodo]
    IN  h3

enlazar_sin_ultimo(h, nuevo_nodo) ==
    LET ultimo == ultimo_nodo(h)
        h1 == [h  EXCEPT ![nuevo_nodo].siguiente = primero]
        h2 == [h1 EXCEPT ![nuevo_nodo].anterior = ultimo]
        h4 == [h2 EXCEPT ![primero].anterior = nuevo_nodo]
    IN  h4

enlazar(h, nuevo_nodo) ==
    LET ultimo == ultimo_nodo(h)
        h1 == [h  EXCEPT ![nuevo_nodo].siguiente = primero]
        h2 == [h1 EXCEPT ![nuevo_nodo].anterior = ultimo]
        h3 == [h2 EXCEPT ![ultimo].siguiente = nuevo_nodo]
        h4 == [h3 EXCEPT ![primero].anterior = nuevo_nodo]
    IN  h4

\* agregar_cancion, lines 63-65: actual is assigned only in the empty case.
agregar_actual_siempre(nuevo_nodo) == nuevo_nodo

agregar_actual(nuevo_nodo) == IF esta_vacia THEN nuevo_nodo ELSE actual

\* agregar_cancion, lines 63-66: primero is assigned only in the empty case.
agregar_primero_siempre(nuevo_nodo) == nuevo_nodo

agregar_primero(nuevo_nodo) == IF esta_vacia THEN nuevo_nodo ELSE primero

\* agregar_cancion, line 81.
agregar_tamanio_solo_vacia == IF esta_vacia THEN tamanio + 1 ELSE tamanio

agregar_tamanio == tamanio + 1

agregar_cancion(titulo, artista, duracion, ruta) ==
    /\ Len(heap) < MaxNodos
    /\ LET nuevo_nodo == Len(heap) + 1
           creado == Append(heap, NodoCancion(nuevo_nodo, titulo, artista, duracion, ruta))
       IN  /\ heap' = IF esta_vacia THEN creado ELSE enlazar(creado, nuevo_nodo)
           /\ actual' = agregar_actual(nuevo_nodo)
           /\ primero' = agregar_primero(nuevo_nodo)
           /\ tamanio' = agregar_tamanio
           /\ op' = "agregar_cancion"
           /\ ret' = Ret("nodo", nuevo_nodo)
           /\ presentes' = presentes \cup {nuevo_nodo}

\* eliminar_cancion_actual, lines 103-110: primero after the removal.
eliminar_primero_sin_vaciar ==
    IF tamanio = 1 THEN primero
    ELSE IF actual = primero THEN heap[primero].siguiente ELSE primero

eliminar_primero_hacia_atras ==
    IF tamanio = 1 THEN None
    ELSE IF actual = primero THEN heap[primero].anterior ELSE primero

eliminar_primero_sin_avanzar ==
    IF tamanio = 1 THEN None ELSE primero

eliminar_primero ==
    IF tamanio = 1 THEN None
    ELSE IF actual = primero THEN heap[primero].siguiente ELSE primero

\* eliminar_cancion_actual, lines 113-114: the neighbours skip actual; the
\* second assignment reads the links the first one left.
\* Removal by copying the next node's song into actual and unlinking the next.
desenlazar_copiando(h) ==
    LET sig == h[actual].siguiente
        h1 == [h EXCEPT ![actual].titulo = h[sig].titulo,
                        ![actual].artista = h[sig].artista,
                        ![actual].duracion = h[sig].duracion,
                        ![actual].ruta = h[sig].ruta,
                        ![actual].siguiente = h[sig].siguiente]
    IN  [h1 EXCEPT ![h[sig].siguiente].anterior = actual]

\* Removal that also resets the links of the removed node to itself.
desenlazar_aislando(h) ==
    LET h1 == [h  EXCEPT ![h[actual].anterior].siguiente = h[actual].siguiente]
        h2 == [h1 EXCEPT ![h1[actual].siguiente].anterior = h1[actual].anterior]
    IN  [h2 EXCEPT ![actual].siguiente = actual, ![actual].anterior = actual]

desenlazar_a_medias(h) ==
    [h EXCEPT ![h[actual].anterior].siguiente = h[actual].siguiente]

desenlazar(h) ==
    LET h1 == [h  EXCEPT ![h[actual].anterior].siguiente = h[actual].siguiente]
        h2 == [h1 EXCEPT ![h1[actual].siguiente].anterior = h1[actual].anterior]
    IN  h2

\* eliminar_cancion_actual, lines 104 and 116: actual after the removal.
eliminar_actual_hacia_atras(h) == IF tamanio = 1 THEN None ELSE h[actual].anterior

eliminar_actual_se_queda(h) == IF tamanio = 1 THEN None ELSE actual

eliminar_actual_sin_vaciar(h) == h[actual].siguiente

eliminar_actual(h) == IF tamanio = 1 THEN None ELSE h[actual].siguiente

\* eliminar_cancion_actual, line 119.
eliminar_tamanio == tamanio - 1

\* The decrement of line 119 placed before the emptiness check of line 96.
eliminar_cancion_actual_sin_guarda ==
    /\ op' = "eliminar_cancion_actual"
    /\ tamanio' = eliminar_tamanio
    /\ IF esta_vacia
       THEN /\ ret' = Ret("nodo", None)
            /\ UNCHANGED <<heap, actual, primero, presentes>>
       ELSE LET nodo_eliminado == actual
                h == IF tamanio = 1 THEN heap ELSE desenlazar(heap)
            IN  /\ heap' = h
                /\ primero' = eliminar_primero
                /\ actual' = eliminar_actual(h)
                /\ ret' = Ret("nodo", nodo_eliminado)
                /\ presentes' = presentes \ {nodo_eliminado}

eliminar_cancion_actual ==
    /\ op' = "eliminar_cancion_actual"
    /\ IF esta_vacia
       THEN /\ ret' = Ret("nodo", None)
            /\ UNCHANGED <<lista, presentes>>
       ELSE LET nodo_eliminado == actual
                h == IF tamanio = 1 THEN heap ELSE desenlazar(heap)
            IN  /\ heap' = h
                /\ primero' = eliminar_primero
                /\ actual' = eliminar_actual(h)
                /\ tamanio' = eliminar_tamanio
                /\ ret' = Ret("nodo", nodo_eliminado)
                /\ presentes' = presentes \ {nodo_eliminado}

\* siguiente_cancion, lines 130-134: actual after the call, when it was c.
siguiente_cancion_hacia_atras(c) == IF esta_vacia THEN c ELSE heap[c].anterior

siguiente_cancion_se_queda(c) == c

siguiente_cancion_actual(c) == IF esta_vacia THEN c ELSE heap[c].siguiente

siguiente_cancion ==
    /\ op' = "siguiente_cancion"
    /\ actual' = siguiente_cancion_actual(actual)
    /\ ret' = Ret("nodo", IF esta_vacia THEN None ELSE siguiente_cancion_actual(actual))
    /\ UNCHANGED <<heap, primero, tamanio, presentes>>

\* cancion_anterior, lines 144-148: actual after the call, when it was c.
cancion_anterior_sin_mover(c) == c

cancion_anterior_actual(c) == IF esta_vacia THEN c ELSE heap[c].anterior

cancion_anterior ==
    /\ op' = "cancion_anterior"
    /\ actual' = cancion_anterior_actual(actual)
    /\ ret' = Ret("nodo", IF esta_vacia THEN None ELSE cancion_anterior_actual(actual))
    /\ UNCHANGED <<heap, primero, tamanio, presentes>>

\* obtener_todas_las_canciones, lines 184-186: the while loop, which ends on
\* the identity of primero.  A heap of k objects either brings the walk back
\* to primero within k steps or never does; pasos counts the steps left.
\* The same loop ending on a node that equals primero field by field.
MismosDatos(a, b) ==
    /\ heap[a].titulo = heap[b].titulo /\ heap[a].artista = heap[b].artista
    /\ heap[a].duracion = heap[b].duracion /\ heap[a].ruta = heap[b].ruta

RECURSIVE recorrer_por_valor(_, _, _)
recorrer_por_valor(nodo, canciones, pasos) ==
    IF nodo \notin Nodos \/ pasos = 0
    THEN [termina |-> FALSE, canciones |-> canciones]
    ELSE IF MismosDatos(nodo, primero)
         THEN [termina |-> TRUE, canciones |-> canciones]
         ELSE recorrer_por_valor(heap[nodo].siguiente, Append(canciones, nodo), pasos - 1)

RECURSIVE recorrer(_, _, _)
recorrer(nodo, canciones, pasos) ==
    IF nodo = primero THEN [termina |-> TRUE, canciones |-> canciones]
    ELSE IF pasos = 0 \/ nodo \notin Nodos
         THEN [termina |-> FALSE, canciones |-> canciones]
         ELSE recorrer(heap[nodo].siguiente, Append(canciones, nodo), pasos - 1)

\* obtener_todas_las_canciones, lines 167-188.
recorrido ==
    IF esta_vacia THEN [termina |-> TRUE, canciones |-> <<>>]
    ELSE IF primero \notin Nodos
         THEN [termina |-> FALSE, canciones |-> <<>>]
         ELSE recorrer(heap[primero].siguiente, <<primero>>, Len(heap))

obtener_todas_las_canciones == recorrido.canciones

len == tamanio

obtener_cancion_actual_primero == primero

obtener_cancion_actual == actual

obtener_cancion_actual_op ==
    /\ op' = "obtener_cancion_actual"
    /\ ret' = Ret("nodo", obtener_cancion_actual)
    /\ UNCHANGED <<lista, presentes>>

esta_vacia_op ==
    /\ op' = "esta_vacia"
    /\ ret' = Ret("bool", esta_vacia)
    /\ UNCHANGED <<lista, presentes>>

len_op ==
    /\ op' = "__len__"
    /\ ret' = Ret("int", len)
    /\ UNCHANGED <<lista, presentes>>

\* The traversal walking with self.primero itself and leaving it on the
\* last node visited.
obtener_todas_las_canciones_op_rotando ==
    /\ recorrido.termina
    /\ op' = "obtener_todas_las_canciones"
    /\ ret' = Ret("list", obtener_todas_las_canciones)
    /\ primero' = IF esta_vacia THEN primero ELSE heap[primero].anterior
    /\ UNCHANGED <<heap, actual, tamanio, presentes>>

obtener_todas_las_canciones_op ==
    /\ recorrido.termina
    /\ op' = "obtener_todas_las_canciones"
    /\ ret' = Ret("list", obtener_todas_las_canciones)
    /\ UNCHANGED <<lista, presentes>>

\* The window after MainWindow.__init__, with no handler running:
\* PlaylistModel.__init__ (canciones, cancion_actual), PlayerWidget.__init__
\* (current_song; boton is the tool tip of its play button), the engine's
\* state (estado), whether the engine holds a media (media_cargada) and the
\* text of the menu's play action (menu).  evento
\* names the handler that ran last; archivo is the file _add_song_from_file
\* handled last; the other fields are the locals of _on_remove_clicked and
\* _on_table_double_clicked, and pasos counts the siguiente_cancion() calls
\* of the loop that is running or ran last.
UiInicial ==
    [pc |-> "reposo", canciones |-> <<>>, cancion_actual |-> None,
     current_song |-> None, estado |-> "stopped", boton |-> "Reproducir",
     menu |-> "&Reproducir", media_cargada |-> FALSE, archivo |-> "",
     evento |-> "", restantes |-> 0, fila |-> 0, canciones_local |-> <<>>,
     nodo_a_eliminar |-> None, nodo_actual_temp |-> None,
     nodo_eliminado |-> None, nodo_seleccionado |-> None,
     nodo_actual |-> None,
     pasos |-> 0, tamanio_bucle |-> 0]

\* the threads that may call the playlist
Hilos == {1, 2}

\* a thread that is in no call
HiloFuera ==
    [pc |-> "fuera", nuevo_nodo |-> None, ultimo_nodo |-> None,
     nodo_eliminado |-> None, llamadas |-> 0]

\* ListaReproduccion.__init__
Init ==
    /\ heap = <<>>
    /\ actual = None
    /\ primero = None
    /\ tamanio = 0
    /\ op = "__init__"
    /\ ret = Ret("nodo", None)
    /\ presentes = {}
    /\ ui = UiInicial
    /\ hilos = [t \in Hilos |-> HiloFuera]
    /\ solapado = FALSE

Agregar == \E e \in Entradas : agregar_cancion(e.titulo, e.artista, e.duracion, e.ruta)

\* The playlist on its own: any method, called by a caller that is no widget.
Next ==
    \/ Agregar /\ UNCHANGED <<ui, hilos, solapado>>
    \/ eliminar_cancion_actual /\ UNCHANGED <<ui, hilos, solapado>>
    \/ siguiente_cancion /\ UNCHANGED <<ui, hilos, solapado>>
    \/ cancion_anterior /\ UNCHANGED <<ui, hilos, solapado>>
    \/ obtener_cancion_actual_op /\ UNCHANGED <<ui, hilos, solapado>>
    \/ esta_vacia_op /\ UNCHANGED <<ui, hilos, solapado>>
    \/ len_op /\ UNCHANGED <<ui, hilos, solapado>>
    \/ obtener_todas_las_canciones_op /\ UNCHANGED <<ui, hilos, solapado>>

Spec == Init /\ [][Next]_vars

\* ------------------------------------------------------------ properties
\* The node reached from n by following siguiente k times (None stays None).
RECURSIVE Seguir(_, _)
Seguir(n, k) ==
    IF k = 0 \/ n \notin Nodos THEN n ELSE Seguir(heap[n].siguiente, k - 1)

\* The nodes reachable from primero by following siguiente.
Alcanzables ==
    IF primero = None THEN {} ELSE { Seguir(primero, k) : k \in 0 .. Len(heap) }

EnAnillo == presentes \cup Alcanzables

Elementos(s) == { s[i] : i \in 1 .. Len(s) }

Creciente(s) == \A i, j \in 1 .. Len(s) : i < j => s[i] < s[j]

SinNodo(s, n) == SelectSeq(s, LAMBDA x : x # n)

\* C1: ring property: every node n in the ring has n.siguiente.anterior = n
\* and n.anterior.siguiente = n, in every state reachable by agregar_cancion,
\* eliminar_cancion_actual, siguiente_cancion and cancion_anterior.
C1_RingProperty ==
    \A n \in EnAnillo :
        /\ n \in Nodos
        /\ heap[n].siguiente \in Nodos
        /\ heap[n].anterior \in Nodos
        /\ heap[heap[n].siguiente].anterior = n
        /\ heap[heap[n].anterior].siguiente = n

C1_Witness ==
    /\ op = "eliminar_cancion_actual"
    /\ tamanio = 3
    /\ Len(heap) = 4
    /\ ret.val \notin {1, 4}

\* C2: tamanio is the number of distinct nodes reachable from primero, and
\* following siguiente exactly tamanio times from any node of the ring comes
\* back to that node, and not earlier.
C2_SizeIsRingLength ==
    /\ tamanio = Cardinality(Alcanzables)
    /\ \A n \in EnAnillo :
        /\ Seguir(n, tamanio) = n
        /\ \A k \in 1 .. tamanio - 1 : Seguir(n, k) # n

C2_Witness ==
    /\ tamanio = 3
    /\ actual # primero
    /\ primero # 1
    /\ op = "siguiente_cancion"

\* C3: tamanio = 0 iff actual is None iff primero is None, and esta_vacia()
\* is true exactly then.
C3_EmptinessCoincides ==
    /\ (tamanio = 0) <=> (actual = None)
    /\ (actual = None) <=> (primero = None)
    /\ esta_vacia <=> (tamanio = 0 /\ actual = None /\ primero = None)
    /\ op = "esta_vacia" => (ret.val <=> (actual = None /\ primero = None))

C3_Witness ==
    /\ op = "eliminar_cancion_actual"
    /\ ret.val # None
    /\ Len(heap) >= 2
    /\ tamanio = 0 /\ actual = None /\ primero = None

\* C4: obtener_todas_las_canciones() lists exactly the nodes still present,
\* in strictly increasing order of their creation, so primero is the
\* earliest-created node still present.
C4_ChronologicalOrder ==
    /\ recorrido.termina
    /\ Elementos(obtener_todas_las_canciones) = presentes
    /\ Creciente(obtener_todas_las_canciones)
    /\ presentes # {} => primero \in presentes /\ \A n \in presentes : primero <= n

C4_Witness ==
    /\ op = "agregar_cancion"
    /\ obtener_todas_las_canciones = <<2, 3, 4>>
    /\ actual = 3

\* C5: after n appends and no removal, count() = n and
\* obtener_todas_las_canciones() is the n created nodes in creation order.
C5_AppendsOnly ==
    presentes = Nodos =>
        /\ len = Len(heap)
        /\ Len(obtener_todas_las_canciones) = Len(heap)
        /\ obtener_todas_las_canciones = [i \in 1 .. Len(heap) |-> i]

C5_Witness ==
    /\ presentes = Nodos
    /\ Len(heap) = 4
    /\ op = "agregar_cancion"
    /\ actual = 2

\* C6: agregar_cancion on a non-empty playlist leaves actual and primero
\* unchanged and keeps the earlier nodes in their relative order; it changes
\* actual only when the playlist was empty.
C6_AppendFrame ==
    [][ op' = "agregar_cancion" =>
          /\ ~esta_vacia =>
                /\ actual' = actual
                /\ primero' = primero
                /\ SelectSeq(obtener_todas_las_canciones', LAMBDA x : x \in Nodos)
                     = obtener_todas_las_canciones
          /\ actual' # actual => esta_vacia ]_vars

C6_Witness ==
    /\ op = "agregar_cancion"
    /\ tamanio = 3
    /\ actual = heap[ret.val].anterior
    /\ actual # primero

\* C7: agregar_cancion on an empty playlist makes the new node primero and
\* actual, linked to itself in both directions, and tamanio 1.
C7_AppendOnEmpty ==
    [][ (op' = "agregar_cancion" /\ esta_vacia) =>
          /\ ret'.val \in Nodos' \ Nodos
          /\ primero' = ret'.val
          /\ actual' = ret'.val
          /\ heap'[ret'.val].siguiente = ret'.val
          /\ heap'[ret'.val].anterior = ret'.val
          /\ tamanio' = 1 ]_vars

C7_Witness ==
    /\ op = "agregar_cancion"
    /\ tamanio = 1
    /\ ret.val = 3
    /\ actual = 3 /\ primero = 3

\* C8: agregar_cancion on a non-empty playlist puts the new node right before
\* primero and right after the former last node, so it is the last element
\* of obtener_todas_las_canciones(); tamanio grows by 1 and the new node is
\* returned.
C8_AppendBeforeHead ==
    [][ (op' = "agregar_cancion" /\ ~esta_vacia) =>
          LET nuevo == ret'.val
              antes == obtener_todas_las_canciones
              despues == obtener_todas_las_canciones'
          IN  /\ ret'.tipo = "nodo"
              /\ nuevo \in Nodos' \ Nodos
              /\ heap'[primero'].anterior = nuevo
              /\ heap'[nuevo].siguiente = primero'
              /\ heap'[nuevo].anterior = antes[Len(antes)]
              /\ despues[Len(despues)] = nuevo
              /\ tamanio' = tamanio + 1 ]_vars

C8_Witness ==
    /\ op = "agregar_cancion"
    /\ ret.val = 4
    /\ obtener_todas_las_canciones = <<1, 3, 4>>
    /\ actual = 3

\* C9: eliminar_cancion_actual with tamanio > 1 returns the node that was
\* actual, moves actual to that node's former siguiente, decrements tamanio
\* by 1, keeps primero unless the removed node was primero, and deletes only
\* the removed node from obtener_todas_las_canciones().
C9_RemoveCurrent ==
    [][ (op' = "eliminar_cancion_actual" /\ tamanio > 1) =>
          /\ ret' = Ret("nodo", actual)
          /\ actual' = heap[actual].siguiente
          /\ tamanio' = tamanio - 1
          /\ actual # primero => primero' = primero
          /\ obtener_todas_las_canciones'
               = SinNodo(obtener_todas_las_canciones, actual) ]_vars

C9_Witness ==
    /\ op = "eliminar_cancion_actual"
    /\ ret.val = 2
    /\ obtener_todas_las_canciones = <<1, 3, 4>>
    /\ actual = 3

\* C10: eliminar_cancion_actual with actual = primero and tamanio > 1 makes
\* the removed node's former siguiente the new primero, and that node is
\* the first element of obtener_todas_las_canciones().
C10_RemoveHead ==
    [][ (op' = "eliminar_cancion_actual" /\ tamanio > 1 /\ actual = primero) =>
          /\ primero' = heap[actual].siguiente
          /\ primero' # actual
          /\ Len(obtener_todas_las_canciones') = tamanio - 1
          /\ obtener_todas_las_canciones'[1] = heap[actual].siguiente ]_vars

C10_Witness ==
    /\ op = "eliminar_cancion_actual"
    /\ ret.val = 1
    /\ primero = 2
    /\ obtener_todas_las_canciones = <<2, 3, 4>>

\* The nodes eliminar_cancion_actual has returned.
Eliminados == Nodos \ presentes

\* C11: eliminar_cancion_actual on a playlist of exactly one node returns
\* that node and empties the playlist: actual and primero become None,
\* tamanio 0, esta_vacia() true and obtener_cancion_actual() None.
C11_RemoveOnlyNode ==
    [][ (op' = "eliminar_cancion_actual" /\ tamanio = 1) =>
          /\ actual \in Nodos
          /\ ret' = Ret("nodo", actual)
          /\ actual' = None
          /\ primero' = None
          /\ tamanio' = 0
          /\ esta_vacia'
          /\ obtener_cancion_actual' = None
          /\ obtener_todas_las_canciones' = <<>> ]_vars

C11_Witness ==
    /\ op = "eliminar_cancion_actual"
    /\ ret.val = 3
    /\ Eliminados = {1, 2, 3}
    /\ tamanio = 0

\* C12: on an empty playlist eliminar_cancion_actual, siguiente_cancion,
\* cancion_anterior and obtener_cancion_actual return None,
\* obtener_todas_las_canciones an empty list and __len__ 0, the state stays
\* as it was (actual None, primero None, tamanio 0), and tamanio is never
\* negative.
C12_EmptyPlaylist ==
    /\ [](tamanio >= 0)
    /\ [][ (esta_vacia /\ op' # "agregar_cancion") =>
             /\ op' \in {"eliminar_cancion_actual", "siguiente_cancion",
                         "cancion_anterior", "obtener_cancion_actual"}
                  => ret' = Ret("nodo", None)
             /\ op' = "obtener_todas_las_canciones" => ret' = Ret("list", <<>>)
             /\ op' = "__len__" => ret' = Ret("int", 0)
             /\ UNCHANGED lista
             /\ actual' = None /\ primero' = None /\ tamanio' = 0 ]_vars

C12_Witness ==
    /\ op = "eliminar_cancion_actual"
    /\ ret.val = None
    /\ Eliminados = {1, 2}
    /\ actual = None /\ primero = None /\ tamanio = 0

\* C13: a node returned by eliminar_cancion_actual is referenced by the
\* playlist no more: it is neither primero nor actual, no node still in the
\* ring has it as siguiente or anterior, it is in no later
\* obtener_todas_las_canciones() and no later siguiente_cancion,
\* cancion_anterior or obtener_cancion_actual returns it.
C13_RemovedIsDropped ==
    \A n \in Eliminados :
        /\ primero # n
        /\ actual # n
        /\ \A m \in EnAnillo \ {n} :
              m \in Nodos => heap[m].siguiente # n /\ heap[m].anterior # n
        /\ n \notin Elementos(obtener_todas_las_canciones)
        /\ op \in {"siguiente_cancion", "cancion_anterior", "obtener_cancion_actual"}
             => ret.val # n
        /\ op = "obtener_todas_las_canciones" => n \notin Elementos(ret.val)

C13_Witness ==
    /\ op = "cancion_anterior"
    /\ Eliminados = {2}
    /\ ret.val = 1
    /\ obtener_todas_las_canciones = <<1, 3, 4>>

\* actual after k calls of siguiente_cancion (of cancion_anterior) in a row,
\* when it was c; the calls change nothing but actual.
RECURSIVE Avanzar(_, _)
Avanzar(c, k) == IF k = 0 THEN c ELSE Avanzar(siguiente_cancion_actual(c), k - 1)

RECURSIVE Retroceder(_, _)
Retroceder(c, k) == IF k = 0 THEN c ELSE Retroceder(cancion_anterior_actual(c), k - 1)

SoloMueveActual ==
    op' \in {"siguiente_cancion", "cancion_anterior"} =>
        UNCHANGED <<heap, primero, tamanio>>

\* C14: from a non-empty state siguiente_cancion() then cancion_anterior(),
\* and cancion_anterior() then siguiente_cancion(), bring actual back to the
\* node it was on, and leave primero, tamanio and the links as they were.
C14_AdvanceRetreat ==
    /\ [](~esta_vacia =>
            /\ cancion_anterior_actual(siguiente_cancion_actual(actual)) = actual
            /\ siguiente_cancion_actual(cancion_anterior_actual(actual)) = actual)
    /\ [][SoloMueveActual]_vars

C14_Witness ==
    /\ op = "cancion_anterior"
    /\ tamanio = 3
    /\ Eliminados = {3}
    /\ actual = 4 /\ primero = 1

\* C15: in a non-empty state of tamanio s, s calls of siguiente_cancion()
\* bring actual back to the node it started on, and so do s calls of
\* cancion_anterior(); after k calls, 0 < k < s, actual is another node.
C15_Wraparound ==
    ~esta_vacia =>
        /\ Avanzar(actual, tamanio) = actual
        /\ Retroceder(actual, tamanio) = actual
        /\ \A k \in 1 .. tamanio - 1 :
              Avanzar(actual, k) # actual /\ Retroceder(actual, k) # actual

C15_Witness ==
    /\ op = "siguiente_cancion"
    /\ tamanio = 3
    /\ Eliminados = {1}
    /\ actual = primero
    /\ Avanzar(actual, 2) = 4

\* C16: on a non-empty playlist siguiente_cancion() moves actual to its
\* siguiente and cancion_anterior() to its anterior, each returning the new
\* actual; primero, tamanio, every link and obtener_todas_las_canciones()
\* stay as they were.
C16_MoveFrame ==
    [][ /\ (op' = "siguiente_cancion" /\ ~esta_vacia) =>
              /\ actual' = heap[actual].siguiente
              /\ ret' = Ret("nodo", actual')
              /\ UNCHANGED <<heap, primero, tamanio>>
              /\ obtener_todas_las_canciones' = obtener_todas_las_canciones
        /\ (op' = "cancion_anterior" /\ ~esta_vacia) =>
              /\ actual' = heap[actual].anterior
              /\ ret' = Ret("nodo", actual')
              /\ UNCHANGED <<heap, primero, tamanio>>
              /\ obtener_todas_las_canciones' = obtener_todas_las_canciones ]_vars

C16_Witness ==
    /\ op = "siguiente_cancion"
    /\ ret.val = 4
    /\ actual = 4
    /\ obtener_todas_las_canciones = <<1, 2, 4>>

Consultas ==
    {"obtener_cancion_actual", "__len__", "esta_vacia", "obtener_todas_las_canciones"}

\* C17: obtener_cancion_actual(), __len__(), esta_vacia() and
\* obtener_todas_las_canciones() leave actual, primero, tamanio and every
\* node's links unchanged; obtener_cancion_actual() returns exactly actual
\* and __len__() exactly tamanio.
C17_QueriesFrame ==
    [][ op' \in Consultas =>
          /\ UNCHANGED <<heap, actual, primero, tamanio>>
          /\ op' = "obtener_cancion_actual" => ret' = Ret("nodo", actual)
          /\ op' = "__len__" => ret' = Ret("int", tamanio) ]_vars

C17_Witness ==
    /\ op = "obtener_cancion_actual"
    /\ ret.val = 3
    /\ primero = 2
    /\ tamanio = 3

SinRepetidos(s) == \A i, j \in 1 .. Len(s) : i # j => s[i] # s[j]

\* C18: obtener_todas_las_canciones() terminates and returns a sequence that
\* starts at primero, has length tamanio and holds every node of the ring
\* exactly once, also when nodes carry identical titulo, artista, duracion
\* and ruta.
C18_TraversalComplete ==
    /\ recorrido.termina
    /\ Len(obtener_todas_las_canciones) = tamanio
    /\ tamanio > 0 => obtener_todas_las_canciones[1] = primero
    /\ Elementos(obtener_todas_las_canciones) = EnAnillo
    /\ SinRepetidos(obtener_todas_las_canciones)

C18_Witness ==
    /\ tamanio = 3
    /\ obtener_todas_las_canciones = <<2, 3, 4>>
    /\ MismosDatos(2, 3)
    /\ MismosDatos(2, 4)
    /\ op = "obtener_todas_las_canciones"
    /\ ret.val = <<2, 3, 4>>

\* C19: a call of obtener_todas_las_canciones() right after another one,
\* with no mutation in between, returns a sequence equal to the first,
\* element by element: what the call returned is what a call in the state
\* it leaves returns.
C19_ViewIdempotent ==
    op = "obtener_todas_las_canciones" =>
        /\ recorrido.termina
        /\ ret = Ret("list", obtener_todas_las_canciones)

C19_Witness ==
    /\ op = "obtener_todas_las_canciones"
    /\ ret.val = <<1, 3, 4>>
    /\ actual = 4

\* The state the scenario is in after n appends, with actual on node c.
Escenario(n, c) ==
    /\ Len(heap) = n
    /\ presentes = 1 .. n
    /\ primero = 1
    /\ tamanio = n
    /\ actual = c

\* C20: scenario.  Appending A, B, C (nodes 1, 2, 3) to an empty playlist
\* gives obtener_todas_las_canciones() = [A, B, C] and actual = A; three
\* siguiente_cancion() calls return B, C, A; eliminar_cancion_actual() with
\* actual = A and tamanio = 3 returns A and leaves primero = B, actual = B,
\* __len__() = 2 and obtener_todas_las_canciones() = [B, C].
C20_Scenario ==
    [][ /\ (op' = "agregar_cancion" /\ Len(heap) = 0) =>
              ret'.val = 1 /\ Escenario(1, 1)'
        /\ (op' = "agregar_cancion" /\ Escenario(1, 1)) =>
              ret'.val = 2 /\ Escenario(2, 1)'
        /\ (op' = "agregar_cancion" /\ Escenario(2, 1)) =>
              /\ ret'.val = 3 /\ Escenario(3, 1)'
              /\ obtener_todas_las_canciones' = <<1, 2, 3>>
              /\ obtener_cancion_actual' = 1
        /\ (op' = "siguiente_cancion" /\ Escenario(3, 1)) =>
              ret'.val = 2 /\ Escenario(3, 2)'
        /\ (op' = "siguiente_cancion" /\ Escenario(3, 2)) =>
              ret'.val = 3 /\ Escenario(3, 3)'
        /\ (op' = "siguiente_cancion" /\ Escenario(3, 3)) =>
              ret'.val = 1 /\ Escenario(3, 1)'
        /\ (op' = "eliminar_cancion_actual" /\ Escenario(3, 1)) =>
              /\ ret'.val = 1
              /\ primero' = 2
              /\ actual' = 2
              /\ len' = 2
              /\ obtener_todas_las_canciones' = <<2, 3>> ]_vars

C20_Witness ==
    /\ op = "eliminar_cancion_actual"
    /\ ret.val = 1
    /\ Len(heap) = 3
    /\ primero = 2 /\ actual = 2 /\ len = 2
    /\ obtener_todas_las_canciones = <<2, 3>>

\* The four song fields of a node record.
Datos(nodo) ==
    [titulo |-> nodo.titulo, artista |-> nodo.artista,
     duracion |-> nodo.duracion, ruta |-> nodo.ruta]

\* C21: the set of nodes in the ring changes only by agregar_cancion, which
\* adds exactly one node that did not exist before, and by
\* eliminar_cancion_actual, which removes exactly the node actual was on;
\* siguiente_cancion, cancion_anterior and the queries add and remove none.
C21_NodeLifecycle ==
    [][ /\ op' = "agregar_cancion" =>
              /\ ret'.val \notin Nodos
              /\ Alcanzables' = Alcanzables \cup {ret'.val}
        /\ op' = "eliminar_cancion_actual" =>
              /\ Alcanzables' = Alcanzables \ {actual}
              /\ ~esta_vacia => actual \in Alcanzables /\ ret'.val = actual
        /\ op' \notin {"agregar_cancion", "eliminar_cancion_actual"} =>
              Alcanzables' = Alcanzables ]_vars

C21_Witness ==
    /\ op = "eliminar_cancion_actual"
    /\ ret.val = 3
    /\ Alcanzables = {1, 4}
    /\ Len(heap) = 4

\* C22: no operation changes titulo, artista, duracion or ruta of a node
\* that exists; only links, primero, actual and tamanio are rewritten.
C22_DataImmutable ==
    [][ \A n \in Nodos : n \in Nodos' /\ Datos(heap'[n]) = Datos(heap[n]) ]_vars

C22_Witness ==
    /\ op = "eliminar_cancion_actual"
    /\ ret.val = 1
    /\ tamanio = 2
    /\ Datos(heap[1]) # Datos(heap[2])
    /\ Datos(heap[2]) # Datos(heap[3])

\* C23: agregar_cancion never rejects its input: for every tuple, also the
\* fallback tuple and a tuple equal to that of a track already present, the
\* call goes through in every state, creates a node that did not exist,
\* stores the four values as given and increases __len__() by exactly 1.
C23_AppendAccepts ==
    Len(heap) < MaxNodos =>
        \A e \in Entradas :
            ENABLED ( /\ agregar_cancion(e.titulo, e.artista, e.duracion, e.ruta)
                      /\ ret'.val \notin Nodos
                      /\ ret'.val \in Nodos'
                      /\ Datos(heap'[ret'.val]) = e
                      /\ len' = len + 1 )

C23_Witness ==
    /\ op = "agregar_cancion"
    /\ ret.val = 3
    /\ presentes = {1, 2, 3}
    /\ Datos(heap[3]) = Datos(heap[1])
    /\ heap[3].duracion = 0 /\ heap[3].artista = "Desconocido"

\* C24: in every non-empty state actual is a node reachable from primero;
\* obtener_cancion_actual(), siguiente_cancion() and cancion_anterior()
\* return None only when the playlist is empty and otherwise a node of
\* obtener_todas_las_canciones().
C24_CursorInRing ==
    /\ ~esta_vacia =>
          /\ actual \in Alcanzables
          /\ actual \in Elementos(obtener_todas_las_canciones)
    /\ op \in {"obtener_cancion_actual", "siguiente_cancion", "cancion_anterior"} =>
          /\ ret.val = None <=> esta_vacia
          /\ ret.val # None => ret.val \in Elementos(obtener_todas_las_canciones)

C24_Witness ==
    /\ op = "siguiente_cancion"
    /\ ret.val = 2
    /\ obtener_todas_las_canciones = <<2, 4>>

\* ------------------------------------------------------------------------
\* src/ui/playlist_widget.py: PlaylistModel and PlaylistWidget.
\*
\* A handler that only runs straight-line code is one action.  A handler
\* with a loop is cut at the loop: ui.pc is the position ("reposo" when no
\* handler runs, "cerrada" once the window is closed), one action runs the code up to the loop, one runs one
\* iteration, one runs the code after the loop to the end of the handler.
\* Table rows are numbered from 1 here and from 0 in Qt.
\* ------------------------------------------------------------------------

MaxArchivos == 2

TopePasos == MaxNodos + 2

nucleo == <<heap, actual, primero, tamanio, op, ret, presentes>>

EnReposo == ui.pc = "reposo"

\* a handler is entered: its locals are fresh, the PlaylistModel is kept
Entrar(evento) ==
    [UiInicial EXCEPT !.canciones = ui.canciones,
                      !.cancion_actual = ui.cancion_actual,
                      !.current_song = ui.current_song,
                      !.estado = ui.estado,
                      !.boton = ui.boton,
                      !.menu = ui.menu,
                      !.media_cargada = ui.media_cargada,
                      !.evento = evento]

Contar(p) == IF p < TopePasos THEN p + 1 ELSE p

update_canciones_sin_cambio(u, canciones) == u

\* PlaylistModel.update_canciones
update_canciones(u, canciones) == [u EXCEPT !.canciones = canciones]

\* PlaylistModel.set_cancion_actual
set_cancion_actual(u, cancion) == [u EXCEPT !.cancion_actual = cancion]

\* PlaylistWidget._update_view, given what obtener_todas_las_canciones() and
\* obtener_cancion_actual() return when it runs
update_view(u, canciones, cancion_actual) ==
    LET u1 == update_canciones(u, canciones)
    IN  IF cancion_actual # None THEN set_cancion_actual(u1, cancion_actual)
        ELSE u1

\* PlaylistWidget.set_current_song: set_cancion_actual and _update_view, given
\* what the playlist's queries return when it runs
set_current_song(u, nodo_cancion, canciones, cancion_actual) ==
    IF nodo_cancion # None
    THEN update_view(set_cancion_actual(u, nodo_cancion),
                     canciones, cancion_actual)
    ELSE u

load_song_sin_reproducir(u, song_node) ==
    IF song_node = None THEN u
    ELSE [u EXCEPT !.current_song = song_node, !.media_cargada = TRUE]

\* PlayerWidget.load_song: the song is loaded and played
load_song(u, song_node) ==
    IF song_node = None THEN u
    ELSE [u EXCEPT !.current_song = song_node,
                   !.media_cargada = TRUE,
                   !.estado = "playing",
                   !.boton = "Pausar"]

on_song_added_vista_viva(u, song_node, tam, canciones, cancion_actual) ==
    IF tam = 1
    THEN [set_current_song(load_song(u, song_node), song_node,
                           canciones, cancion_actual)
              EXCEPT !.menu = "&Pausar"]
    ELSE [u EXCEPT !.canciones = Append(@, song_node)]

on_song_added_siempre_carga(u, song_node, tam, canciones, cancion_actual) ==
    [set_current_song(load_song(u, song_node), song_node,
                      canciones, cancion_actual)
         EXCEPT !.menu = "&Pausar"]

\* MainWindow._on_song_added, the slot of song_added; tam is the size of the
\* playlist when it runs, canciones and cancion_actual what the playlist's
\* queries return then
on_song_added(u, song_node, tam, canciones, cancion_actual) ==
    IF tam = 1
    THEN [set_current_song(load_song(u, song_node), song_node,
                           canciones, cancion_actual)
              EXCEPT !.menu = "&Pausar"]
    ELSE u

on_song_removed_siempre_para(u, song_node, current_song) ==
    [u EXCEPT !.estado = "stopped",
              !.current_song = None,
              !.menu = "&Reproducir"]

on_song_removed_sin_cargar(u, song_node, current_song) ==
    IF song_node = u.current_song
    THEN [u EXCEPT !.estado = "stopped",
                   !.current_song = None,
                   !.menu = "&Reproducir"]
    ELSE u

\* MainWindow._on_song_removed, the slot of song_removed; current_song is
\* what PlaylistWidget.get_current_song() returns when it runs
on_song_removed(u, song_node, current_song) ==
    IF song_node = u.current_song
    THEN IF current_song # None
         THEN load_song(u, current_song)
         ELSE [u EXCEPT !.estado = "stopped",
                        !.current_song = None,
                        !.menu = "&Reproducir"]
    ELSE u

\* PlaylistWidget._on_remove_clicked, lines 357-358 and 374-375:
\* song_removed is emitted when a node was removed
emit_song_removed(u, nodo_eliminado, current_song) ==
    IF nodo_eliminado # None
    THEN on_song_removed(u, nodo_eliminado, current_song)
    ELSE u

on_song_selected_sin_cargar(u, song_node) == [u EXCEPT !.menu = "&Pausar"]

\* MainWindow._on_song_selected, the slot of song_selected
on_song_selected(u, song_node) ==
    [load_song(u, song_node) EXCEPT !.menu = "&Pausar"]

\* PlaylistWidget.next_song and PlaylistWidget.cancion_anterior after the
\* call of the playlist, which returned nodo: set_cancion_actual of the
\* PlaylistModel when there is a node, then _update_view
mostrar_nodo(u, nodo, canciones, cancion_actual) ==
    update_view(IF nodo # None THEN set_cancion_actual(u, nodo) ELSE u,
                canciones, cancion_actual)

\* PlaylistWidget._on_add_clicked with no file chosen in the dialog
on_add_clicked_sin_archivos ==
    /\ EnReposo
    /\ obtener_cancion_actual_op
    /\ ui' = update_view(Entrar("add"), obtener_todas_las_canciones,
                         obtener_cancion_actual)

\* PlaylistWidget._on_add_clicked up to the loop over the n chosen files
on_add_clicked(n) ==
    /\ EnReposo
    /\ n >= 1
    /\ Len(heap) + n <= MaxNodos
    /\ ui' = [Entrar("add") EXCEPT !.pc = "agregando", !.restantes = n]
    /\ UNCHANGED nucleo

\* Files a user may choose in the dialog.  ruta is the path; base and ext are
\* what os.path.basename and os.path.splitext make of it; abre tells whether
\* MP3(ruta) returns or raises; length_ds is audio.info.length in tenths of
\* a second; tags maps the ID3 frames present to their text lists.
ArchivoA ==
    [ruta |-> "/m/A.mp3", base |-> "A", ext |-> ".mp3", abre |-> TRUE,
     length_ds |-> 1257,
     tags |-> [t \in {"TPE1", "TIT2"} |-> IF t = "TPE1" THEN <<"X">> ELSE <<"A">>]]

ArchivoB ==
    [ruta |-> "/m/B.wav", base |-> "B", ext |-> ".wav", abre |-> FALSE,
     length_ds |-> 0, tags |-> [t \in {} |-> <<>>]]

\* not an MP3 file under an upper-case .MP3 name: MP3() raises
ArchivoC ==
    [ruta |-> "/m/C.MP3", base |-> "C", ext |-> ".MP3", abre |-> FALSE,
     length_ds |-> 0, tags |-> [t \in {} |-> <<>>]]

\* a TPE1 frame with an empty text list: text[0] raises IndexError
ArchivoD ==
    [ruta |-> "/m/D.mp3", base |-> "D", ext |-> ".mp3", abre |-> TRUE,
     length_ds |-> 2009, tags |-> [t \in {"TPE1"} |-> <<>>]]

\* a TIT2 frame with an empty text list, after a good TPE1
ArchivoE ==
    [ruta |-> "/m/E.mp3", base |-> "E", ext |-> ".mp3", abre |-> TRUE,
     length_ds |-> 905,
     tags |-> [t \in {"TPE1", "TIT2"} |-> IF t = "TPE1" THEN <<"Y">> ELSE <<>>]]

\* no tags at all: nothing raises
ArchivoF ==
    [ruta |-> "/m/F.mp3", base |-> "F", ext |-> ".mp3", abre |-> TRUE,
     length_ds |-> 770, tags |-> [t \in {} |-> <<>>]]

\* an empty artist text and a title: nothing raises
ArchivoG ==
    [ruta |-> "/m/G.mp3", base |-> "G", ext |-> ".mp3", abre |-> TRUE,
     length_ds |-> 3000,
     tags |-> [t \in {"TPE1", "TIT2"} |-> IF t = "TPE1" THEN <<"">> ELSE <<"Ge">>]]

\* the files of the application's runs: their tuples are Entradas
ArchivosUI == {ArchivoA, ArchivoB}

Archivos == {ArchivoA, ArchivoB, ArchivoC, ArchivoD, ArchivoE, ArchivoF, ArchivoG}

\* str.lower() on the extensions above
minusculas(s) == IF s = ".MP3" THEN ".mp3" ELSE s

\* file_path.lower().endswith('.mp3')
es_mp3(f) == minusculas(f.ext) = ".mp3"

\* _add_song_from_file, lines 298-308: the try block that reads the MP3
\* metadata into m; an exception leaves m as the statements before it made it
leer_mp3(f, m) ==
    IF ~f.abre THEN m
    ELSE LET m1 == [m EXCEPT !.duracion = f.length_ds \div 10]
         IN  IF "TPE1" \in DOMAIN f.tags /\ Len(f.tags["TPE1"]) = 0 THEN m1
             ELSE LET m2 == IF "TPE1" \in DOMAIN f.tags /\ f.tags["TPE1"][1] # ""
                            THEN [m1 EXCEPT !.artista = f.tags["TPE1"][1]]
                            ELSE m1
                  IN  IF "TIT2" \in DOMAIN f.tags /\ Len(f.tags["TIT2"]) = 0
                      THEN m2
                      ELSE IF "TIT2" \in DOMAIN f.tags /\ f.tags["TIT2"][1] # ""
                           THEN [m2 EXCEPT !.titulo = f.tags["TIT2"][1]]
                           ELSE m2

\* _add_song_from_file, lines 289-308: title, artist and duration of file f
metadatos(f) ==
    LET m == [titulo |-> f.base, artista |-> "Desconocido", duracion |-> 0]
    IN  IF es_mp3(f) THEN leer_mp3(f, m) ELSE m

\* one iteration of the loop of _on_add_clicked: _add_song_from_file on file
\* f and the slot of song_added; after the last file, _update_view and the
\* handler ends
add_song_from_file(f) ==
    /\ ui.pc = "agregando"
    /\ ui.restantes >= 1
    /\ agregar_cancion(metadatos(f).titulo, metadatos(f).artista,
                       metadatos(f).duracion, f.ruta)
    /\ LET u1 == on_song_added([ui EXCEPT !.restantes = @ - 1,
                                          !.archivo = f.ruta],
                               ret'.val, tamanio',
                               obtener_todas_las_canciones',
                               obtener_cancion_actual')
       IN  ui' = IF ui.restantes = 1
                 THEN update_view([u1 EXCEPT !.pc = "reposo"],
                                  obtener_todas_las_canciones',
                                  obtener_cancion_actual')
                 ELSE u1

\* MainWindow._on_next_button_clicked: PlaylistWidget.next_song, then
\* load_song of the node it returned
on_next_button_clicked ==
    /\ EnReposo
    /\ siguiente_cancion
    /\ ui' = load_song(mostrar_nodo(Entrar("next"), ret'.val,
                                    obtener_todas_las_canciones',
                                    obtener_cancion_actual'),
                       ret'.val)

\* MainWindow._on_prev_button_clicked: PlaylistWidget.cancion_anterior, then
\* load_song of the node it returned
on_prev_button_clicked ==
    /\ EnReposo
    /\ cancion_anterior
    /\ ui' = load_song(mostrar_nodo(Entrar("prev"), ret'.val,
                                    obtener_todas_las_canciones',
                                    obtener_cancion_actual'),
                       ret'.val)

\* the rows a user can pick in the table: those of PlaylistModel.canciones
Filas == 1 .. Len(ui.canciones)

\* _on_remove_clicked with no row selected
on_remove_clicked_sin_seleccion ==
    /\ EnReposo
    /\ ui' = Entrar("remove")
    /\ UNCHANGED nucleo

\* _on_remove_clicked on the row of the current song
on_remove_clicked_actual(fila) ==
    /\ EnReposo
    /\ ~esta_vacia
    /\ fila <= Len(obtener_todas_las_canciones)
    /\ obtener_todas_las_canciones[fila] = obtener_cancion_actual
    /\ LET canciones == obtener_todas_las_canciones
           nodo_actual_temp == obtener_cancion_actual
       IN  /\ eliminar_cancion_actual
           /\ ui' = update_view(
                       emit_song_removed(
                           [Entrar("remove") EXCEPT
                                !.fila = fila,
                                !.canciones_local = canciones,
                                !.nodo_a_eliminar = canciones[fila],
                                !.nodo_actual_temp = nodo_actual_temp,
                                !.nodo_eliminado = ret'.val],
                           ret'.val, obtener_cancion_actual'),
                       obtener_todas_las_canciones',
                       obtener_cancion_actual')

\* _on_remove_clicked on another row, up to the search loop
on_remove_clicked_otra(fila) ==
    /\ EnReposo
    /\ ~esta_vacia
    /\ fila <= Len(obtener_todas_las_canciones)
    /\ obtener_todas_las_canciones[fila] # obtener_cancion_actual
    /\ obtener_cancion_actual_op
    /\ ui' = [Entrar("remove") EXCEPT
                  !.pc = "buscando",
                  !.fila = fila,
                  !.canciones_local = obtener_todas_las_canciones,
                  !.nodo_a_eliminar = obtener_todas_las_canciones[fila],
                  !.nodo_actual_temp = obtener_cancion_actual,
                  !.tamanio_bucle = tamanio]

buscar_continua_acotado ==
    /\ obtener_cancion_actual # ui.nodo_a_eliminar
    /\ ui.pasos < ui.tamanio_bucle

\* the condition of the search loop of _on_remove_clicked
buscar_continua == obtener_cancion_actual # ui.nodo_a_eliminar

\* one iteration of the search loop
remove_buscar ==
    /\ ui.pc = "buscando"
    /\ buscar_continua
    /\ siguiente_cancion
    /\ ui' = [ui EXCEPT !.pasos = Contar(@)]

restaurar_continua_nunca == FALSE

\* the condition of the restore loop of _on_remove_clicked
restaurar_continua == obtener_cancion_actual # ui.nodo_actual_temp

\* after the search loop: the removal, and either the restore loop is
\* entered or the handler ends (song_removed, _update_view)
remove_eliminar ==
    /\ ui.pc = "buscando"
    /\ ~buscar_continua
    /\ eliminar_cancion_actual
    /\ LET u1 == [ui EXCEPT !.nodo_eliminado = ret'.val]
       IN  ui' = IF tamanio' # 0 /\ ui.nodo_actual_temp # ret'.val
                 THEN [u1 EXCEPT !.pc = "restaurando", !.pasos = 0,
                                 !.tamanio_bucle = tamanio']
                 ELSE update_view(
                          emit_song_removed([u1 EXCEPT !.pc = "reposo"],
                                            ret'.val, obtener_cancion_actual'),
                          obtener_todas_las_canciones',
                          obtener_cancion_actual')

\* one iteration of the restore loop
remove_restaurar ==
    /\ ui.pc = "restaurando"
    /\ restaurar_continua
    /\ siguiente_cancion
    /\ ui' = [ui EXCEPT !.pasos = Contar(@)]

\* after the restore loop: song_removed, _update_view
remove_fin ==
    /\ ui.pc = "restaurando"
    /\ ~restaurar_continua
    /\ obtener_cancion_actual_op
    /\ ui' = update_view(
                 emit_song_removed([ui EXCEPT !.pc = "reposo"],
                                   ui.nodo_eliminado, obtener_cancion_actual),
                 obtener_todas_las_canciones, obtener_cancion_actual)

\* _on_table_double_clicked on the row of the current song: song_selected
on_table_double_clicked_actual(fila) ==
    /\ EnReposo
    /\ ~esta_vacia
    /\ fila <= Len(obtener_todas_las_canciones)
    /\ obtener_todas_las_canciones[fila] = obtener_cancion_actual
    /\ obtener_cancion_actual_op
    /\ ui' = on_song_selected(
                 [Entrar("select") EXCEPT
                      !.fila = fila,
                      !.canciones_local = obtener_todas_las_canciones,
                      !.nodo_seleccionado = obtener_todas_las_canciones[fila]],
                 obtener_cancion_actual)

\* _on_table_double_clicked on another row, up to the search loop; with no
\* current song the handler returns
on_table_double_clicked_otra(fila) ==
    /\ EnReposo
    /\ ~esta_vacia
    /\ fila <= Len(obtener_todas_las_canciones)
    /\ obtener_todas_las_canciones[fila] # obtener_cancion_actual
    /\ obtener_cancion_actual_op
    /\ ui' = [Entrar("select") EXCEPT
                  !.pc = IF obtener_cancion_actual = None THEN "reposo"
                         ELSE "seleccionando",
                  !.fila = fila,
                  !.canciones_local = obtener_todas_las_canciones,
                  !.nodo_seleccionado = obtener_todas_las_canciones[fila],
                  !.nodo_actual = obtener_cancion_actual,
                  !.tamanio_bucle = tamanio]

\* the condition of the search loop of _on_table_double_clicked
seleccionar_continua == obtener_cancion_actual # ui.nodo_seleccionado

\* one iteration of the search loop of _on_table_double_clicked
select_buscar ==
    /\ ui.pc = "seleccionando"
    /\ seleccionar_continua
    /\ siguiente_cancion
    /\ ui' = [ui EXCEPT !.pasos = Contar(@)]

\* after the search loop: set_cancion_actual, song_selected
select_fin ==
    /\ ui.pc = "seleccionando"
    /\ ~seleccionar_continua
    /\ obtener_cancion_actual_op
    /\ ui' = on_song_selected(
                 set_cancion_actual([ui EXCEPT !.pc = "reposo"],
                                    ui.nodo_seleccionado),
                 obtener_cancion_actual)

\* The application: the widget's handlers, one at a time (Qt delivers the
\* signals on the one thread of the event loop).  The two row handlers
\* return at once on an empty playlist (lines 340-341, 392-393) and skip a
\* row past the end of the playlist (lines 345, 397); a user cannot take
\* those branches, because the table shows PlaylistModel.canciones, which
\* is the playlist's sequence whenever no handler runs (C29): every row
\* that can be picked exists.  The other branches carry the negations of
\* those conditions as guards.
NextUI ==
    \/ on_add_clicked_sin_archivos /\ UNCHANGED <<hilos, solapado>>
    \/ \E n \in 1 .. MaxArchivos : on_add_clicked(n) /\ UNCHANGED <<hilos, solapado>>
    \/ \E f \in ArchivosUI : add_song_from_file(f) /\ UNCHANGED <<hilos, solapado>>
    \/ on_next_button_clicked /\ UNCHANGED <<hilos, solapado>>
    \/ on_prev_button_clicked /\ UNCHANGED <<hilos, solapado>>
    \/ on_remove_clicked_sin_seleccion /\ UNCHANGED <<hilos, solapado>>
    \/ \E fila \in Filas : on_remove_clicked_actual(fila) /\ UNCHANGED <<hilos, solapado>>
    \/ \E fila \in Filas : on_remove_clicked_otra(fila) /\ UNCHANGED <<hilos, solapado>>
    \/ remove_buscar /\ UNCHANGED <<hilos, solapado>>
    \/ remove_eliminar /\ UNCHANGED <<hilos, solapado>>
    \/ remove_restaurar /\ UNCHANGED <<hilos, solapado>>
    \/ remove_fin /\ UNCHANGED <<hilos, solapado>>
    \/ \E fila \in Filas : on_table_double_clicked_actual(fila) /\ UNCHANGED <<hilos, solapado>>
    \/ \E fila \in Filas : on_table_double_clicked_otra(fila) /\ UNCHANGED <<hilos, solapado>>
    \/ select_buscar /\ UNCHANGED <<hilos, solapado>>
    \/ select_fin /\ UNCHANGED <<hilos, solapado>>

SpecUI == Init /\ [][NextUI]_vars

\* Another actor that holds the same ListaReproduccion and calls one of its
\* mutating methods, without telling the widget, between the handler's
\* choice of the node to search for and the first iteration of the search.
Intruso ==
    /\ ui.pasos = 0
    /\ ui.pc \in {"buscando", "restaurando"}
    /\ \/ Agregar
       \/ eliminar_cancion_actual
       \/ siguiente_cancion
       \/ cancion_anterior
    /\ UNCHANGED <<ui, hilos, solapado>>

NextIntruso ==
    \/ NextUI
    \/ Intruso

SpecIntruso == Init /\ [][NextIntruso]_vars

\* ------------------------------------------------------------------------
\* Properties of the widget
\* ------------------------------------------------------------------------

\* the last handler was _on_remove_clicked on a row that was not the
\* current song's, and it has completed
QuitoOtraFila ==
    /\ EnReposo
    /\ ui.evento = "remove"
    /\ ui.nodo_a_eliminar # None
    /\ ui.nodo_a_eliminar # ui.nodo_actual_temp

\* C26: when _on_remove_clicked has completed on a selected row that was not
\* the current song's row (head or not), the node removed is the node that
\* was at that row of the ordered sequence, the cursor is on the node it was
\* on before the handler, the ordered sequence is the previous one without
\* that node (the others keep their relative order), and the size is the
\* previous size minus 1.
C26_RemoveOtherRow ==
    QuitoOtraFila =>
        /\ ui.nodo_eliminado = ui.canciones_local[ui.fila]
        /\ ui.nodo_eliminado = ui.nodo_a_eliminar
        /\ obtener_cancion_actual = ui.nodo_actual_temp
        /\ obtener_todas_las_canciones
               = SinNodo(ui.canciones_local, ui.canciones_local[ui.fila])
        /\ len = Len(ui.canciones_local) - 1
        /\ tamanio = Len(obtener_todas_las_canciones)

\* a middle row and the head row have both been removed this way; here the
\* head row, with the cursor on the last of three songs
C26_Witness ==
    /\ QuitoOtraFila
    /\ ui.fila = 1
    /\ Len(ui.canciones_local) = 3
    /\ ui.nodo_actual_temp = ui.canciones_local[3]
    /\ primero = ui.canciones_local[2]

\* the loop that is running, or ran last, has made at most this many calls
EnBucle == ui.pc \in {"buscando", "restaurando", "seleccionando"}

Buscado ==
    CASE ui.pc = "buscando" -> ui.nodo_a_eliminar
      [] ui.pc = "restaurando" -> ui.nodo_actual_temp
      [] ui.pc = "seleccionando" -> ui.nodo_seleccionado
      [] OTHER -> None

\* C27: in the application every cursor-search loop of the widget (to the
\* row to delete, back to the saved cursor, to the double-clicked row) makes
\* at most size - 1 calls of siguiente_cancion, size being the size when the
\* loop started, and the node searched for is in the ring while the loop
\* runs; so the loop has ended when the count reaches size - 1.
C27_LoopsTerminate ==
    /\ EnBucle =>
           /\ Buscado \in Alcanzables
           /\ ui.tamanio_bucle = tamanio
           /\ ui.pasos <= ui.tamanio_bucle - 1
           /\ ui.pasos = ui.tamanio_bucle - 1 => obtener_cancion_actual = Buscado
    /\ ~EnBucle => ui.pasos <= IF ui.tamanio_bucle = 0 THEN 0
                                ELSE ui.tamanio_bucle - 1

\* the restore loop has made size - 1 calls (two of three songs left)
C27_Witness ==
    /\ ui.pc = "restaurando"
    /\ ui.tamanio_bucle = 3
    /\ ui.pasos = 2

\* C28: in _on_remove_clicked, once the node a search loop looks for (the row
\* to delete, or the saved cursor) is no longer in the ring while that loop
\* runs, the loop never ends: the handler stays in that loop and the node
\* stays out of the ring.
C28_LostTargetLoopsForever ==
    [][ (/\ ui.pc \in {"buscando", "restaurando"}
         /\ Buscado \notin Alcanzables)
        => (/\ ui'.pc = ui.pc
            /\ Buscado' = Buscado
            /\ Buscado' \notin Alcanzables') ]_vars

\* the restore loop has gone round more than the whole ring without finding
\* the saved cursor, which the other actor removed
C28_Witness ==
    /\ ui.pc = "restaurando"
    /\ ui.nodo_actual_temp \notin Alcanzables
    /\ ~esta_vacia
    /\ ui.pasos = TopePasos

\* C29: whenever no handler of the widget runs, PlaylistModel.canciones is
\* the playlist's ordered sequence, element by element, so a table row
\* designates the node at the same position of the ordered sequence.
C29_ViewIsSequence ==
    EnReposo =>
        /\ ui.canciones = obtener_todas_las_canciones
        /\ \A fila \in Filas : ui.canciones[fila] = obtener_todas_las_canciones[fila]

\* after a removal of another row that left two songs
C29_Witness ==
    /\ QuitoOtraFila
    /\ Len(ui.canciones) = 2
    /\ ui.canciones = obtener_todas_las_canciones

\* C30: whenever no handler of the widget runs, PlaylistModel.cancion_actual
\* is the playlist's current song, and it is None when the playlist is empty.
C30_HighlightIsCurrent ==
    EnReposo =>
        /\ ui.cancion_actual = obtener_cancion_actual
        /\ esta_vacia => ui.cancion_actual = None

\* ------------------------------------------------------------------------
\* src/models/playlist.py, statement by statement: agregar_cancion and
\* eliminar_cancion_actual called from two threads with no lock around the
\* calls.  One step is one statement of the method; hilos[t].pc is the line
\* the thread is about to run.  Reading an attribute of None raises
\* AttributeError, which ends the call.
\* ------------------------------------------------------------------------

nucleo_hilos == <<heap, actual, primero, tamanio, op, ret, presentes>>

MaxLlamadas == 3

\* the calls a thread makes in a run: thread 1 up to MaxLlamadas, one after
\* the other; any other thread one call, which may overlap any of those
Llamadas(t) == IF t = 1 THEN MaxLlamadas ELSE 1

\* thread t is in no call and may start one
PuedeLlamar(t) == hilos[t].pc = "fuera" /\ hilos[t].llamadas < Llamadas(t)

\* thread t starts a call
Entra(t) == [HiloFuera EXCEPT !.llamadas = hilos[t].llamadas + 1]

\* the call of thread t ends: its locals are gone
Volver(t) ==
    hilos' = [hilos EXCEPT ![t] = [HiloFuera EXCEPT
                                       !.llamadas = hilos[t].llamadas]]

\* thread t goes on to line pc, nothing else changes in it
Saltar(t, pc) == hilos' = [hilos EXCEPT ![t].pc = pc]

\* some thread other than t is inside a call
OtroDentro(t) == \E u \in Hilos \ {t} : hilos[u].pc # "fuera"

\* the call of thread t ends with AttributeError
Excepcion(t, metodo) ==
    /\ Volver(t)
    /\ op' = metodo
    /\ ret' = Ret("error", None)
    /\ UNCHANGED <<heap, actual, primero, tamanio, presentes>>

\* agregar_cancion, the call and line 60: the new node
agregar_60(t, titulo, artista, duracion, ruta) ==
    /\ PuedeLlamar(t)
    /\ Len(heap) < MaxNodos
    /\ LET nuevo_nodo == Len(heap) + 1
       IN  /\ heap' = Append(heap, NodoCancion(nuevo_nodo, titulo, artista,
                                               duracion, ruta))
           /\ hilos' = [hilos EXCEPT ![t] = [Entra(t) EXCEPT
                                                !.pc = "L63",
                                                !.nuevo_nodo = nuevo_nodo]]
    /\ solapado' = (solapado \/ OtroDentro(t))
    /\ UNCHANGED <<actual, primero, tamanio, op, ret, presentes, ui>>

\* line 63: if self.esta_vacia()
agregar_63(t) ==
    /\ hilos[t].pc = "L63"
    /\ Saltar(t, IF esta_vacia THEN "L65" ELSE "L70")
    /\ UNCHANGED <<nucleo_hilos, ui, solapado>>

\* line 65: self.actual = nuevo_nodo
agregar_65(t) ==
    /\ hilos[t].pc = "L65"
    /\ actual' = hilos[t].nuevo_nodo
    /\ Saltar(t, "L66")
    /\ UNCHANGED <<heap, primero, tamanio, op, ret, presentes, ui, solapado>>

\* line 66: self.primero = nuevo_nodo
agregar_66(t) ==
    /\ hilos[t].pc = "L66"
    /\ primero' = hilos[t].nuevo_nodo
    /\ Saltar(t, "L81")
    /\ UNCHANGED <<heap, actual, tamanio, op, ret, presentes, ui, solapado>>

\* line 70: ultimo_nodo = self.primero.anterior
agregar_70(t) ==
    /\ hilos[t].pc = "L70"
    /\ IF primero = None
       THEN Excepcion(t, "agregar_cancion")
       ELSE /\ hilos' = [hilos EXCEPT ![t].pc = "L74",
                                      ![t].ultimo_nodo = ultimo_nodo(heap)]
            /\ UNCHANGED nucleo_hilos
    /\ UNCHANGED <<ui, solapado>>

\* line 74: nuevo_nodo.siguiente = self.primero
agregar_74(t) ==
    /\ hilos[t].pc = "L74"
    /\ heap' = [heap EXCEPT ![hilos[t].nuevo_nodo].siguiente = primero]
    /\ Saltar(t, "L75")
    /\ UNCHANGED <<actual, primero, tamanio, op, ret, presentes, ui, solapado>>

\* line 75: nuevo_nodo.anterior = ultimo_nodo
agregar_75(t) ==
    /\ hilos[t].pc = "L75"
    /\ heap' = [heap EXCEPT
                    ![hilos[t].nuevo_nodo].anterior = hilos[t].ultimo_nodo]
    /\ Saltar(t, "L77")
    /\ UNCHANGED <<actual, primero, tamanio, op, ret, presentes, ui, solapado>>

\* line 77: ultimo_nodo.siguiente = nuevo_nodo
agregar_77(t) ==
    /\ hilos[t].pc = "L77"
    /\ IF hilos[t].ultimo_nodo = None
       THEN Excepcion(t, "agregar_cancion")
       ELSE /\ heap' = [heap EXCEPT
                            ![hilos[t].ultimo_nodo].siguiente = hilos[t].nuevo_nodo]
            /\ Saltar(t, "L78")
            /\ UNCHANGED <<actual, primero, tamanio, op, ret, presentes>>
    /\ UNCHANGED <<ui, solapado>>

\* line 78: self.primero.anterior = nuevo_nodo
agregar_78(t) ==
    /\ hilos[t].pc = "L78"
    /\ IF primero = None
       THEN Excepcion(t, "agregar_cancion")
       ELSE /\ heap' = [heap EXCEPT ![primero].anterior = hilos[t].nuevo_nodo]
            /\ Saltar(t, "L81")
            /\ UNCHANGED <<actual, primero, tamanio, op, ret, presentes>>
    /\ UNCHANGED <<ui, solapado>>

\* lines 81 and 83: self.tamanio += 1; return nuevo_nodo
agregar_81(t) ==
    /\ hilos[t].pc = "L81"
    /\ tamanio' = agregar_tamanio
    /\ op' = "agregar_cancion"
    /\ ret' = Ret("nodo", hilos[t].nuevo_nodo)
    /\ presentes' = presentes \cup {hilos[t].nuevo_nodo}
    /\ Volver(t)
    /\ UNCHANGED <<heap, actual, primero, ui, solapado>>

\* eliminar_cancion_actual, the call and lines 96-97: nothing to remove
eliminar_96(t) ==
    /\ PuedeLlamar(t)
    /\ IF esta_vacia
       THEN /\ op' = "eliminar_cancion_actual"
            /\ ret' = Ret("nodo", None)
            /\ hilos' = [hilos EXCEPT ![t] = [Entra(t) EXCEPT !.pc = "fuera"]]
       ELSE /\ hilos' = [hilos EXCEPT ![t] = [Entra(t) EXCEPT !.pc = "L100"]]
            /\ UNCHANGED <<op, ret>>
    /\ solapado' = (solapado \/ OtroDentro(t))
    /\ UNCHANGED <<heap, actual, primero, tamanio, presentes, ui>>

\* line 100: nodo_eliminado = self.actual
eliminar_100(t) ==
    /\ hilos[t].pc = "L100"
    /\ hilos' = [hilos EXCEPT ![t].pc = "L103",
                              ![t].nodo_eliminado = actual]
    /\ UNCHANGED <<nucleo_hilos, ui, solapado>>

\* line 103: if self.tamanio == 1
eliminar_103(t) ==
    /\ hilos[t].pc = "L103"
    /\ Saltar(t, IF tamanio = 1 THEN "L104" ELSE "L109")
    /\ UNCHANGED <<nucleo_hilos, ui, solapado>>

\* line 104: self.actual = None
eliminar_104(t) ==
    /\ hilos[t].pc = "L104"
    /\ actual' = None
    /\ Saltar(t, "L105")
    /\ UNCHANGED <<heap, primero, tamanio, op, ret, presentes, ui, solapado>>

\* line 105: self.primero = None
eliminar_105(t) ==
    /\ hilos[t].pc = "L105"
    /\ primero' = None
    /\ Saltar(t, "L119")
    /\ UNCHANGED <<heap, actual, tamanio, op, ret, presentes, ui, solapado>>

\* line 109: if self.actual == self.primero:
eliminar_109(t) ==
    /\ hilos[t].pc = "L109"
    /\ Saltar(t, IF actual = primero THEN "L110" ELSE "L113")
    /\ UNCHANGED <<heap, actual, primero, tamanio, op, ret, presentes, ui,
                   solapado>>

\* line 110: self.primero = self.primero.siguiente
eliminar_110(t) ==
    /\ hilos[t].pc = "L110"
    /\ IF primero = None
       THEN Excepcion(t, "eliminar_cancion_actual")
       ELSE /\ primero' = heap[primero].siguiente
            /\ Saltar(t, "L113")
            /\ UNCHANGED <<heap, actual, tamanio, op, ret, presentes>>
    /\ UNCHANGED <<ui, solapado>>

\* line 113: self.actual.anterior.siguiente = self.actual.siguiente
eliminar_113(t) ==
    /\ hilos[t].pc = "L113"
    /\ IF actual = None \/ (actual # None /\ heap[actual].anterior = None)
       THEN Excepcion(t, "eliminar_cancion_actual")
       ELSE /\ heap' = [heap EXCEPT ![heap[actual].anterior].siguiente =
                                        heap[actual].siguiente]
            /\ Saltar(t, "L114")
            /\ UNCHANGED <<actual, primero, tamanio, op, ret, presentes>>
    /\ UNCHANGED <<ui, solapado>>

\* line 114: self.actual.siguiente.anterior = self.actual.anterior
eliminar_114(t) ==
    /\ hilos[t].pc = "L114"
    /\ IF actual = None \/ (actual # None /\ heap[actual].siguiente = None)
       THEN Excepcion(t, "eliminar_cancion_actual")
       ELSE /\ heap' = [heap EXCEPT ![heap[actual].siguiente].anterior =
                                        heap[actual].anterior]
            /\ Saltar(t, "L116")
            /\ UNCHANGED <<actual, primero, tamanio, op, ret, presentes>>
    /\ UNCHANGED <<ui, solapado>>

\* line 116: self.actual = self.actual.siguiente
eliminar_116(t) ==
    /\ hilos[t].pc = "L116"
    /\ IF actual = None
       THEN Excepcion(t, "eliminar_cancion_actual")
       ELSE /\ actual' = heap[actual].siguiente
            /\ Saltar(t, "L119")
            /\ UNCHANGED <<heap, primero, tamanio, op, ret, presentes>>
    /\ UNCHANGED <<ui, solapado>>

\* lines 119 and 121: self.tamanio -= 1; return nodo_eliminado
eliminar_119(t) ==
    /\ hilos[t].pc = "L119"
    /\ tamanio' = eliminar_tamanio
    /\ op' = "eliminar_cancion_actual"
    /\ ret' = Ret("nodo", hilos[t].nodo_eliminado)
    /\ presentes' = presentes \ {hilos[t].nodo_eliminado}
    /\ Volver(t)
    /\ UNCHANGED <<heap, actual, primero, ui, solapado>>

NextHilos ==
    \/ \E t \in Hilos, e \in Entradas :
           agregar_60(t, e.titulo, e.artista, e.duracion, e.ruta)
    \/ \E t \in Hilos : agregar_63(t)
    \/ \E t \in Hilos : agregar_65(t)
    \/ \E t \in Hilos : agregar_66(t)
    \/ \E t \in Hilos : agregar_70(t)
    \/ \E t \in Hilos : agregar_74(t)
    \/ \E t \in Hilos : agregar_75(t)
    \/ \E t \in Hilos : agregar_77(t)
    \/ \E t \in Hilos : agregar_78(t)
    \/ \E t \in Hilos : agregar_81(t)
    \/ \E t \in Hilos : eliminar_96(t)
    \/ \E t \in Hilos : eliminar_100(t)
    \/ \E t \in Hilos : eliminar_103(t)
    \/ \E t \in Hilos : eliminar_104(t)
    \/ \E t \in Hilos : eliminar_105(t)
    \/ \E t \in Hilos : eliminar_109(t)
    \/ \E t \in Hilos : eliminar_110(t)
    \/ \E t \in Hilos : eliminar_113(t)
    \/ \E t \in Hilos : eliminar_114(t)
    \/ \E t \in Hilos : eliminar_116(t)
    \/ \E t \in Hilos : eliminar_119(t)

SpecHilos == Init /\ [][NextHilos]_vars

\* no thread is inside a call
Quietos == \A t \in Hilos : hilos[t].pc = "fuera"

\* the ring property on the nodes reachable from primero
AnilloDesdePrimero ==
    \A n \in Alcanzables :
        /\ n \in Nodos
        /\ heap[n].siguiente \in Nodos
        /\ heap[n].anterior \in Nodos
        /\ heap[heap[n].siguiente].anterior = n
        /\ heap[heap[n].anterior].siguiente = n

\* tamanio is the number of nodes reachable from primero
TamanioEsAlcanzables == tamanio = Cardinality(Alcanzables)

\* C25: the playlist is safe only when its callers serialise their calls.
\* As long as no call has started while another was running, the ring
\* property and the equality of size with the number of nodes reachable
\* from head hold whenever no call is running; and with the assignments of
\* two calls interleaved a state with no call running is reached in which
\* one of them fails (C25_Witness).
C25_SafeOnlySerialised ==
    (Quietos /\ ~solapado) => (AnilloDesdePrimero /\ TamanioEsAlcanzables)

\* two calls have overlapped, both have returned, and the ring property or
\* the size equality is broken
C25_Witness ==
    /\ Quietos
    /\ solapado
    /\ ~(AnilloDesdePrimero /\ TamanioEsAlcanzables)

\* C37: eliminar_cancion_actual does not modify the node it returns: the
\* node's own siguiente and anterior are what they were before the call (its
\* former neighbours when tamanio was > 1, itself when it was the only
\* node), and no node left in the ring has it as siguiente or anterior.
C37_RemovedNodeUntouched ==
    [][ (op' = "eliminar_cancion_actual" /\ ~esta_vacia) =>
          LET n == ret'.val
          IN  /\ n = actual
              /\ heap'[n] = heap[n]
              /\ tamanio = 1 => heap'[n].siguiente = n /\ heap'[n].anterior = n
              /\ tamanio > 1 =>
                    /\ heap'[n].siguiente = Seguir(n, 1)
                    /\ heap'[n].siguiente # n
                    /\ heap'[n].anterior # n
                    /\ heap'[n].siguiente \in Alcanzables'
                    /\ heap'[n].anterior \in Alcanzables'
              /\ \A m \in Alcanzables' :
                    heap'[m].siguiente # n /\ heap'[m].anterior # n ]_vars

\* a middle node has been removed: its links still name its two former
\* neighbours, which now name each other
C37_Witness ==
    /\ op = "eliminar_cancion_actual"
    /\ ret.val = 2
    /\ heap[2].anterior = 1
    /\ heap[2].siguiente = 3
    /\ heap[1].siguiente = 3
    /\ heap[3].anterior = 1

\* C38: a sequence returned by obtener_todas_las_canciones() is a snapshot.
\* The lists the widget holds (PlaylistModel.canciones from the last
\* _update_view, the local canciones of the running handler) keep their
\* length and elements through every agregar_cancion and
\* eliminar_cancion_actual made while a handler runs, and until the handler
\* fetches a new one PlaylistModel.canciones does not show the mutation
\* (the slot of song_added fetches one for the first track of an empty
\* playlist, the handlers fetch one when they end).
C38_SnapshotStable ==
    [][ (tamanio' # tamanio /\ ui.pc # "reposo") =>
          /\ ui'.canciones_local = ui.canciones_local
          /\ (ui'.pc # "reposo" /\ tamanio # 0) =>
                /\ ui'.canciones = ui.canciones
                /\ ui'.canciones # obtener_todas_las_canciones' ]_vars

\* the restore loop runs after a removal: both lists still hold the removed
\* node, the playlist's sequence does not
C38_Witness ==
    /\ ui.pc = "restaurando"
    /\ Len(ui.canciones_local) = 3
    /\ ui.canciones = ui.canciones_local
    /\ ui.nodo_eliminado \in Elementos(ui.canciones)
    /\ ui.nodo_eliminado \notin Elementos(obtener_todas_las_canciones)
    /\ Len(obtener_todas_las_canciones) = 2

\* the moves of the double-click search loop, forwards and backwards, from
\* cursor c to node n
RECURSIVE DistanciaAdelante(_, _, _)
DistanciaAdelante(c, n, k) ==
    IF c = n \/ k = 0 \/ c \notin Nodos THEN 0
    ELSE 1 + DistanciaAdelante(heap[c].siguiente, n, k - 1)

RECURSIVE DistanciaAtras(_, _, _)
DistanciaAtras(c, n, k) ==
    IF c = n \/ k = 0 \/ c \notin Nodos THEN 0
    ELSE 1 + DistanciaAtras(heap[c].anterior, n, k - 1)

Menor(a, b) == IF a <= b THEN a ELSE b

\* C40: the double-click handler reaches the selected node in the shorter
\* direction: when its search loop ends, the moves it made are the smaller
\* of the distances forwards and backwards from the old cursor to the
\* selected node, and so at most floor(size / 2).
C40_ShorterDirection ==
    (ui.pc = "seleccionando" /\ ~seleccionar_continua) =>
        /\ ui.pasos = Menor(DistanciaAdelante(ui.nodo_actual,
                                              ui.nodo_seleccionado, tamanio),
                            DistanciaAtras(ui.nodo_actual,
                                           ui.nodo_seleccionado, tamanio))
        /\ ui.pasos <= tamanio \div 2

\* The add dialog on its own, with every kind of file.
NextArchivos ==
    \/ on_add_clicked_sin_archivos /\ UNCHANGED <<hilos, solapado>>
    \/ \E n \in 1 .. MaxArchivos : on_add_clicked(n) /\ UNCHANGED <<hilos, solapado>>
    \/ \E f \in Archivos : add_song_from_file(f) /\ UNCHANGED <<hilos, solapado>>

SpecArchivos == Init /\ [][NextArchivos]_vars

\* reading the metadata of file f raises an exception at some point
ExtraccionFalla(f) ==
    /\ es_mp3(f)
    /\ \/ ~f.abre
       \/ \E t \in DOMAIN f.tags : Len(f.tags[t]) = 0

\* the file _add_song_from_file handled last
UltimoArchivo == CHOOSE f \in Archivos : f.ruta = ui.archivo

\* C36: every file chosen in the add dialog results in exactly one append,
\* also when reading its metadata fails; and whenever reading fails the
\* appended node has the file's base name as title, artist "Desconocido" and
\* duration 0.
C36_FallbackOnFailure ==
    (ui.evento = "add" /\ ui.archivo # "") =>
        /\ op = "agregar_cancion"
        /\ ret.val = Len(heap)
        /\ heap[ret.val].ruta = ui.archivo
        /\ Len(heap) = tamanio
        /\ ExtraccionFalla(UltimoArchivo) =>
              Datos(heap[ret.val]) =
                  [titulo |-> UltimoArchivo.base, artista |-> "Desconocido",
                   duracion |-> 0, ruta |-> ui.archivo]

\* ------------------------------------------------------------------------
\* The window: the handlers of the widget together with the play and stop
\* controls and the engine's end-of-media report.

\* PlayerWidget._on_playback_completed and its slot MainWindow._on_song_finished:
\* the button and the menu go back to play, then _on_next_button_clicked.
\* The engine reports the end of the media it holds and is stopped by then;
\* the report is delivered by the event loop when no handler runs, whatever
\* the handlers before it did to the playlist.
on_playback_completed ==
    /\ EnReposo
    /\ ui.media_cargada
    /\ siguiente_cancion
    /\ ui' = load_song(mostrar_nodo([Entrar("finished") EXCEPT
                                         !.estado = "stopped",
                                         !.boton = "Reproducir",
                                         !.menu = "&Reproducir"],
                                    ret'.val,
                                    obtener_todas_las_canciones',
                                    obtener_cancion_actual'),
                       ret'.val)

\* AudioPlayer.is_playing
is_playing(u) == u.estado = "playing"

\* MainWindow._on_play_button_clicked, the slot of play_button_clicked: it
\* reads the engine's state when it runs, after the toggle
on_play_button_clicked(u) ==
    IF is_playing(u) THEN [u EXCEPT !.menu = "&Reproducir"]
    ELSE [u EXCEPT !.menu = "&Pausar"]

\* PlayerWidget._on_play_clicked
play_clicked(u) ==
    IF u.current_song = None THEN u
    ELSE IF is_playing(u)
         THEN on_play_button_clicked([u EXCEPT !.estado = "paused",
                                               !.boton = "Reproducir"])
         ELSE on_play_button_clicked([u EXCEPT !.estado = "playing",
                                               !.boton = "Pausar"])

\* the play button is clicked
on_play_clicked ==
    /\ EnReposo
    /\ ui' = play_clicked(Entrar("play"))
    /\ UNCHANGED nucleo

\* MainWindow._on_play_action: the menu's play action is triggered
on_play_action ==
    /\ EnReposo
    /\ ui' = play_clicked(Entrar("play_action"))
    /\ UNCHANGED nucleo

\* PlayerWidget._on_stop_clicked and its slot MainWindow._on_stop_button_clicked
stop_clicked(u) ==
    IF u.current_song = None THEN u
    ELSE [u EXCEPT !.estado = "stopped", !.boton = "Reproducir",
                   !.menu = "&Reproducir"]

\* the stop button is clicked, or the menu's stop action is triggered
on_stop_clicked ==
    /\ EnReposo
    /\ ui' = stop_clicked(Entrar("stop"))
    /\ UNCHANGED nucleo

\* MainWindow.closeEvent: the window is closed, or the menu action Salir is
\* triggered (QMainWindow.close).  The engine is stopped, the button and the
\* menu are left as they are, and the event is accepted: the window is gone
\* and no handler runs after it.
closeEvent ==
    /\ EnReposo
    /\ ui' = [Entrar("close") EXCEPT !.pc = "cerrada", !.estado = "stopped"]
    /\ UNCHANGED nucleo

NextVentana ==
    \/ NextUI
    \/ closeEvent /\ UNCHANGED <<hilos, solapado>>
    \/ on_playback_completed /\ UNCHANGED <<hilos, solapado>>
    \/ on_play_clicked /\ UNCHANGED <<hilos, solapado>>
    \/ on_play_action /\ UNCHANGED <<hilos, solapado>>
    \/ on_stop_clicked /\ UNCHANGED <<hilos, solapado>>

SpecVentana == Init /\ [][NextVentana]_vars

\* the action a text offers: the menu's text without its mnemonic mark
Ofrece(texto) ==
    IF texto \in {"&Pausar", "Pausar"} THEN "Pausar" ELSE "Reproducir"

\* C39: after every play/pause toggle, from the button or from the menu, the
\* menu action and the play button offer the same next action: "Pausar"
\* while the engine plays, "Reproducir" while it is paused or stopped; a
\* toggle with no track loaded changes nothing.
C39_MenuMatchesButton ==
    [][ (ui'.evento \in {"play", "play_action"}) =>
          IF ui.current_song = None
          THEN /\ ui'.current_song = None
               /\ ui'.estado = ui.estado
               /\ ui'.boton = ui.boton
               /\ ui'.menu = ui.menu
               /\ UNCHANGED nucleo
          ELSE /\ ui'.estado = IF ui.estado = "playing" THEN "paused"
                               ELSE "playing"
               /\ Ofrece(ui'.boton) = Ofrece(ui'.menu)
               /\ Ofrece(ui'.boton) = IF ui'.estado = "playing" THEN "Pausar"
                                      ELSE "Reproducir"
      ]_vars

\* C31: whenever no handler runs (after add, remove, next, previous,
\* double-click, playback completed, and the play and stop controls), the
\* track loaded in the player is the node the playlist's cursor is on, and
\* both are none when the playlist is empty.
C31_PlayerFollowsCursor ==
    EnReposo =>
        /\ ui.current_song = obtener_cancion_actual
        /\ esta_vacia => (ui.current_song = None /\ actual = None)

\* a row other than the current one was removed after a playback completed
\* moved the cursor off the head: the player still holds the cursor's node
C31_Witness ==
    /\ EnReposo
    /\ ui.evento = "remove"
    /\ ui.nodo_eliminado # None
    /\ ui.pasos > 0
    /\ tamanio >= 2
    /\ actual # primero
    /\ ui.current_song = actual

\* C32: every end-of-media report advances the playlist cursor exactly once
\* (from the last node to the first; to the same node when size is 1) and
\* then loads and plays the new current track; on an empty playlist it loads
\* nothing and changes no playlist state.
C32_AdvanceOnCompletion ==
    [][ (EnReposo /\ ui'.evento = "finished") =>
          IF esta_vacia
          THEN /\ heap' = heap
               /\ actual' = actual
               /\ primero' = primero
               /\ tamanio' = tamanio
               /\ presentes' = presentes
               /\ ui'.current_song = ui.current_song
               /\ ui'.estado # "playing"
          ELSE /\ op' = "siguiente_cancion"
               /\ actual' = heap[actual].siguiente
               /\ actual = heap[primero].anterior => actual' = primero
               /\ tamanio = 1 => actual' = actual
               /\ heap' = heap
               /\ primero' = primero
               /\ tamanio' = tamanio
               /\ ui'.current_song = actual'
               /\ ui'.estado = "playing"
               /\ ui'.pc = "reposo"
      ]_vars

\* a playback completed on the last of three tracks: the cursor and the
\* player are on the first
C32_Witness ==
    /\ ui.evento = "finished"
    /\ tamanio = 3
    /\ actual = primero
    /\ ui.current_song = primero
    /\ ui.estado = "playing"
    /\ ui.cancion_actual = primero

\* C33: when the removed track is the one loaded in the player, the player
\* loads (and plays) the playlist's new current track if the playlist is
\* still non-empty, and otherwise stops and holds no track; when the removed
\* track is not the loaded one, the player's track and the engine's state
\* are left as they were.
C33_RemovedTrackReloads ==
    [][ (ui'.pc = "reposo" /\ ui'.evento = "remove"
             /\ ui'.nodo_eliminado # None) =>
          IF ui'.nodo_eliminado = ui.current_song
          THEN IF tamanio' > 0
               THEN /\ ui'.current_song = obtener_cancion_actual'
                    /\ ui'.current_song \in Alcanzables'
                    /\ ui'.estado = "playing"
               ELSE /\ ui'.current_song = None
                    /\ ui'.estado = "stopped"
          ELSE /\ ui'.current_song = ui.current_song
               /\ ui'.estado = ui.estado
      ]_vars

\* the loaded track was removed with two tracks left: the player plays the
\* new current track
C33_Witness ==
    /\ EnReposo
    /\ ui.evento = "remove"
    /\ ui.nodo_eliminado # None
    /\ ui.nodo_eliminado = ui.nodo_actual_temp
    /\ tamanio = 2
    /\ ui.current_song = actual
    /\ ui.estado = "playing"
    /\ ui.menu = "&Pausar"

\* C34: a track added to an empty playlist is loaded into the player and
\* played; a track added to a non-empty playlist changes neither the
\* player's track (nor the engine's state) nor the playlist cursor, for
\* every file of a dialog.
C34_AddLoadsOnlyFirst ==
    [][ (ui.pc = "agregando" /\ op' = "agregar_cancion"
             /\ ui'.restantes = ui.restantes - 1) =>
          IF tamanio = 0
          THEN /\ ui'.current_song = ret'.val
               /\ actual' = ret'.val
               /\ ui'.estado = "playing"
               /\ heap'[ret'.val].ruta = ui'.archivo
          ELSE /\ ui'.current_song = ui.current_song
               /\ ui'.estado = ui.estado
               /\ actual' = actual
               /\ ret'.val # ui'.current_song
      ]_vars

\* the first of two files of one dialog was added to two tracks while the
\* player was paused on the second of them
C34_Witness ==
    /\ ui.pc = "agregando"
    /\ ui.restantes = 1
    /\ ui.archivo # ""
    /\ tamanio = 3
    /\ ui.current_song = actual
    /\ actual # primero
    /\ actual # Len(heap)
    /\ ui.estado = "paused"

\* C35: a double click on row r of a non-empty table ends with the r-th
\* element of the playlist's sequence as cursor and as the player's track,
\* playing, and changes neither the head, the size nor the order of the
\* sequence at any of its steps; on the row of the current track the cursor
\* stays where it is, no advance is made, and the track is loaded again.
C35_DoubleClickSelects ==
    [][ /\ (ui'.evento = "select") =>
              /\ heap' = heap
              /\ primero' = primero
              /\ tamanio' = tamanio
              /\ obtener_todas_las_canciones' = ui'.canciones_local
        /\ (ui'.evento = "select" /\ ui'.pc = "reposo") =>
              /\ ui'.fila \in 1 .. Len(ui'.canciones_local)
              /\ actual' = ui'.canciones_local[ui'.fila]
              /\ actual' = ui'.nodo_seleccionado
              /\ ui'.current_song = actual'
              /\ ui'.estado = "playing"
              /\ ui.pc = "reposo" => (actual' = actual /\ ui'.pasos = 0)
      ]_vars

\* the third row was double-clicked while the player was on the first
C35_Witness ==
    /\ EnReposo
    /\ ui.evento = "select"
    /\ ui.fila = 3
    /\ ui.pasos = 2
    /\ tamanio = 3
    /\ actual = ui.canciones_local[3]
    /\ ui.nodo_actual = primero
    /\ ui.current_song = actual

====
